---- MODULE Spec2Model ----
\* Model of ip_watcher_bot.py: the ip_monitor polling loop, the state file
\* (load_last_ip / save_last_ip), fetch_public_ip and the channel notification.
EXTENDS Integers, Sequences, FiniteSets, TLC

\* ---------------------------------------------------------------- bounds
MaxLen == 3        \* longest response body of the IP service
MaxTicks == 2      \* iterations of ip_monitor in one behaviour
MaxChanges == 2    \* how often the external address changes (first one included)

\* ---------------------------------------------------------------- text
\* A text is a sequence of characters.  "1" stands for any printable
\* character, "\r" for a whitespace character that is also a line ending.
Char == {"1", "\r"}

None == <<"None">>          \* Python None (Optional[str])
NoFile == <<"ENOENT">>      \* os.path.isfile(STATE_FILE) is False

IsSpace(c) == c \in {" ", "\t", "\n", "\r"}

RECURSIVE LStrip(_)
LStrip(s) == IF s # <<>> /\ IsSpace(Head(s)) THEN LStrip(Tail(s)) ELSE s

RECURSIVE RStrip(_)
RStrip(s) ==
    IF s # <<>> /\ IsSpace(s[Len(s)]) THEN RStrip(SubSeq(s, 1, Len(s) - 1)) ELSE s

\* str.strip()
Strip(s) == RStrip(LStrip(s))

\* open(..., "r") reads in universal-newlines mode: "\r\n" and "\r" become "\n"
RECURSIVE ReadNewlines(_)
ReadNewlines(s) ==
    IF s = <<>> THEN <<>>
    ELSE IF Head(s) = "\r"
         THEN IF Len(s) > 1 /\ s[2] = "\n"
              THEN <<"\n">> \o ReadNewlines(Tail(Tail(s)))
              ELSE <<"\n">> \o ReadNewlines(Tail(s))
         ELSE <<Head(s)>> \o ReadNewlines(Tail(s))

\* open(..., "w") translates "\n" to os.linesep, which is "\n" on POSIX
WriteNewlines(s) == s

RECURSIVE SeqsUpTo(_)
SeqsUpTo(n) ==
    IF n = 0 THEN {<<>>}
    ELSE LET shorter == SeqsUpTo(n - 1)
         IN shorter \cup {Append(s, c) : s \in {t \in shorter : Len(t) = n - 1}, c \in Char}

\* the response bodies the IP service can return
Bodies == SeqsUpTo(MaxLen)

\* the addresses these bodies carry, and the bodies that carry address a
Addresses == {Strip(b) : b \in Bodies}
BodiesOf(a) == {b \in Bodies : Strip(b) = a}

Prefixes(s) == {SubSeq(s, 1, n) : n \in 0..Len(s)}

\* ---------------------------------------------------------------- functions
\* load_last_ip(): None when the file is missing or blank
load_last_ip(f) ==
    IF f = NoFile THEN None
    ELSE LET t == Strip(ReadNewlines(f)) IN IF t = <<>> THEN None ELSE t

\* the comparison lost: every tick counts as a change
ChangedAlways(last, cur) == TRUE

\* the test `last_ip != current_ip`
Changed(last, cur) == last # cur

StartupPrefix == "Bot started - current public IP is **"
ChangePrefix == "Public IP **changed** from <"
ChangeInfix == "> to **"
MsgSuffix == "**."

\* the first-run branch lost: change framing even without a previous address
MessageChangeOnly(last, cur) ==
    <<ChangePrefix>> \o last \o <<ChangeInfix>> \o cur \o <<MsgSuffix>>

\* the change message leaves the previous address out
MessageNoPrevious(last, cur) ==
    IF last = None
    THEN <<StartupPrefix>> \o cur \o <<MsgSuffix>>
    ELSE <<ChangePrefix>> \o <<ChangeInfix>> \o cur \o <<MsgSuffix>>

\* the f-strings of the two notifications
Message(last, cur) ==
    IF last = None
    THEN <<StartupPrefix>> \o cur \o <<MsgSuffix>>
    ELSE <<ChangePrefix>> \o last \o <<ChangeInfix>> \o cur \o <<MsgSuffix>>

\* text a occurs in message m
Mentions(m, a) == \E i \in 0..(Len(m) - Len(a)) : SubSeq(m, i + 1, i + Len(a)) = a

\* ---------------------------------------------------------------- state
VARIABLES
    ext,         \* external address: what the bodies of the IP service carry right now
    file,        \* content of STATE_FILE, or NoFile
    pc,          \* position of the process / the ip_monitor task
    current_ip,  \* local of ip_monitor
    last_ip,     \* local of ip_monitor
    outbox,      \* messages delivered to the channel by the current tick
    tick,        \* bookkeeping of the current tick
    prev,        \* bookkeeping of the tick before it
    lastSaved,   \* value of the last save_last_ip that returned normally
    nsent,       \* notifications delivered so far
    changes,     \* times the external address changed so far (first one included)
    ticks,       \* iterations of ip_monitor started so far
    env,         \* environment / .env the process was last started with
    myip,        \* the "!myip" message of a user: "none", "asked" or "answered"
    nloops,      \* ip_monitor tasks alive
    reready,     \* on_ready has fired while ip_monitor was running
    consumed     \* address saved while the channel was unresolved, fetched ever since

vars == <<ext, file, pc, current_ip, last_ip, outbox, tick, prev, lastSaved,
          nsent, changes, ticks, env, myip, nloops, reready, consumed>>

\* ---------------------------------------------------------------- configuration
DefaultInterval == 300

\* os.getenv results: is DISCORD_TOKEN / NOTIFY_CHANNEL_ID set (and not empty),
\* and CHECK_INTERVAL, <<>> when it is not set
Envs == [token : BOOLEAN, channel : BOOLEAN, interval : {<<>>, <<60>>}]

\* only the token is checked
ConfigOkTokenOnly(e) == e.token

\* the two `if not ...: raise RuntimeError` at import time
ConfigOk(e) == e.token /\ e.channel

\* CHECK_INTERVAL = int(os.getenv("CHECK_INTERVAL", "300"))
CHECK_INTERVAL(e) == IF e.interval = <<>> THEN DefaultInterval ELSE e.interval[1]

NoTick == [file0 |-> NoFile, sent |-> 0, saved |-> FALSE, fail |-> "none", chg |-> 0]
NoPrev == [addr |-> None, sent |-> 0, chg |-> 0]

Init ==
    /\ ext \in Addresses
    /\ file = NoFile
    /\ pc = "off"
    /\ current_ip = None
    /\ last_ip = None
    /\ outbox = <<>>
    /\ tick = NoTick
    /\ prev = NoPrev
    /\ lastSaved = NoFile
    /\ nsent = 0
    /\ changes = 1
    /\ ticks = 0
    /\ env \in {e \in Envs : ConfigOk(e)}
    /\ myip = "none"
    /\ nloops = 0
    /\ reready = FALSE
    /\ consumed = None

\* ---------------------------------------------------------------- environment
\* the external address changes
ExtChange ==
    /\ changes < MaxChanges
    /\ \E a \in Addresses \ {ext} :
          /\ ext' = a
          /\ changes' = changes + 1
    /\ UNCHANGED <<file, pc, current_ip, last_ip, outbox, tick, prev, lastSaved,
                   nsent, ticks>>
    /\ UNCHANGED <<env, myip, nloops, reready, consumed>>

\* the process is stopped (KeyboardInterrupt, kill, power loss) at any point
Kill ==
    /\ pc # "down"
    /\ pc' = "down"
    /\ current_ip' = None
    /\ last_ip' = None
    /\ outbox' = <<>>
    /\ tick' = NoTick
    /\ prev' = NoPrev
    /\ UNCHANGED <<ext, file, lastSaved, nsent, changes, ticks>>
    /\ myip' = "none"
    /\ nloops' = 0
    /\ reready' = FALSE
    /\ UNCHANGED <<env, consumed>>

\* the process is started again: the module loads its configuration, which
\* raises RuntimeError when a required value is missing, then bot.run(DISCORD_TOKEN)
Start ==
    /\ pc = "down"
    /\ \E e \in Envs :
          /\ env' = e
          /\ pc' = IF ConfigOk(e) THEN "off" ELSE "down"
    /\ UNCHANGED <<ext, file, current_ip, last_ip, outbox, tick, prev, lastSaved,
                   nsent, changes, ticks>>
    /\ UNCHANGED <<myip, nloops, reready, consumed>>

\* ---------------------------------------------------------------- the bot
\* ip_monitor.is_running(): the loop task exists and has not ended
is_running == pc \in {"idle", "fetch", "save", "send", "done"}

\* on_ready without the is_running test: every event starts a loop
OnReadyNoGuard ==
    /\ pc \notin {"down"}
    /\ reready' = (reready \/ is_running)
    /\ pc' = IF ~is_running THEN "idle" ELSE pc
    /\ prev' = IF ~is_running THEN NoPrev ELSE prev
    /\ nloops' = nloops + 1
    /\ UNCHANGED <<ext, file, current_ip, last_ip, outbox, tick, lastSaved,
                   nsent, changes, ticks>>
    /\ UNCHANGED <<env, myip, consumed>>

\* on_ready (fired after every login, also after a reconnect): start
\* ip_monitor unless it is running
OnReady ==
    /\ pc \notin {"down"}
    /\ reready' = (reready \/ is_running)
    /\ pc' = IF ~is_running THEN "idle" ELSE pc
    /\ prev' = IF ~is_running THEN NoPrev ELSE prev
    /\ nloops' = IF ~is_running THEN nloops + 1 ELSE nloops
    /\ UNCHANGED <<ext, file, current_ip, last_ip, outbox, tick, lastSaved,
                   nsent, changes, ticks>>
    /\ UNCHANGED <<env, myip, consumed>>

\* a user sends "!myip": `bot` dispatches it as a command, but no command is
\* registered on it (no @bot.command in the file), so the lookup fails with
\* CommandNotFound and nothing is sent back
MyIpCommand ==
    /\ pc # "down"
    /\ myip = "none"
    /\ myip' = "asked"
    /\ UNCHANGED <<ext, file, pc, current_ip, last_ip, outbox, tick, prev, lastSaved,
                   nsent, changes, ticks, env, nloops, reready, consumed>>

\* tasks.loop fires one iteration: ip_monitor() runs up to `await fetch_public_ip`
Tick ==
    /\ pc = "idle"
    /\ ticks < MaxTicks
    /\ pc' = "fetch"
    /\ ticks' = ticks + 1
    /\ tick' = [NoTick EXCEPT !.file0 = file]
    /\ current_ip' = None
    /\ last_ip' = None
    /\ outbox' = <<>>
    /\ UNCHANGED <<ext, file, prev, lastSaved, nsent, changes>>
    /\ UNCHANGED <<env, myip, nloops, reready, consumed>>

\* the `if current_ip is None: return` guard lost: the tick goes on with None,
\* and save_last_ip(None) truncates the file before f.write(None) raises
FetchFailNoGuard ==
    /\ pc = "fetch"
    /\ current_ip' = None
    /\ last_ip' = load_last_ip(file)
    /\ file' = IF last_ip' # None THEN <<>> ELSE file
    /\ pc' = IF last_ip' # None THEN "failed" ELSE "done"
    /\ tick' = [tick EXCEPT !.fail = "fetch"]
    /\ UNCHANGED <<ext, outbox, prev, lastSaved, nsent, changes, ticks>>
    /\ UNCHANGED <<env, myip, nloops, reready, consumed>>

\* fetch_public_ip caught an exception and returned None: `return`
FetchFail ==
    /\ pc = "fetch"
    /\ pc' = "done"
    /\ current_ip' = None
    /\ tick' = [tick EXCEPT !.fail = "fetch"]
    /\ UNCHANGED <<ext, file, last_ip, outbox, prev, lastSaved, nsent, changes, ticks>>
    /\ UNCHANGED <<env, myip, nloops, reready, consumed>>

\* fetch_public_ip returned the stripped body; ip_monitor loads the state,
\* compares and, on a difference, enters save_last_ip: open(STATE_FILE, "w").
\* An OSError of either open() leaves ip_monitor; tasks.loop retries later.
FetchOk ==
    /\ pc = "fetch"
    /\ \E body \in BodiesOf(ext) : current_ip' = Strip(body)
    /\ \E io \in {"ok", "loaderr", "openerr"} :
          IF io = "loaderr" /\ file # NoFile
          THEN \* open(STATE_FILE, "r") raises
               /\ last_ip' = None
               /\ pc' = "done"
               /\ tick' = [tick EXCEPT !.fail = "load", !.chg = changes]
               /\ file' = file
          ELSE /\ last_ip' = load_last_ip(file)
               /\ IF Changed(last_ip', current_ip')
                  THEN IF io = "openerr"
                       THEN \* open(STATE_FILE, "w") raises, the file is untouched
                            /\ file' = file
                            /\ pc' = "done"
                            /\ tick' = [tick EXCEPT !.fail = "save", !.chg = changes]
                       ELSE \* the file is opened for writing, which truncates it
                            /\ file' = <<>>
                            /\ pc' = "save"
                            /\ tick' = [tick EXCEPT !.chg = changes]
                  ELSE \* log.debug("IP unchanged.")
                       /\ file' = file
                       /\ pc' = "done"
                       /\ tick' = [tick EXCEPT !.chg = changes]
    /\ UNCHANGED <<ext, outbox, prev, lastSaved, nsent, changes, ticks>>
    /\ consumed' = IF current_ip' = consumed THEN consumed ELSE None
    /\ UNCHANGED <<env, myip, nloops, reready>>

\* the notification goes out before the data reaches the file
SaveWriteAfterSend ==
    /\ pc = "save"
    /\ pc' = "send"
    /\ UNCHANGED <<ext, file, current_ip, last_ip, outbox, tick, prev, lastSaved,
                   nsent, changes, ticks>>
    /\ UNCHANGED <<env, myip, nloops, reready, consumed>>

\* f.write(ip) and the close succeed; then bot.get_channel(NOTIFY_CHANNEL_ID)
SaveWrite ==
    /\ pc = "save"
    /\ file' = WriteNewlines(current_ip)
    /\ lastSaved' = file'
    /\ \E resolved \in BOOLEAN :
          IF resolved
          THEN /\ pc' = "send"
               /\ tick' = [tick EXCEPT !.saved = TRUE]
               /\ consumed' = consumed
          ELSE \* log.error("Could not find channel ...")
               /\ pc' = "done"
               /\ tick' = [tick EXCEPT !.saved = TRUE, !.fail = "nochannel"]
               /\ consumed' = current_ip
    /\ UNCHANGED <<ext, current_ip, last_ip, outbox, prev, nsent, changes, ticks>>
    /\ UNCHANGED <<env, myip, nloops, reready>>

\* the exception of the write swallowed: the tick goes on to notify
SaveWriteFailSwallowed ==
    /\ pc = "save"
    /\ \E written \in Prefixes(WriteNewlines(current_ip)) : file' = written
    /\ pc' = "send"
    /\ tick' = [tick EXCEPT !.fail = "save"]
    /\ UNCHANGED <<ext, current_ip, last_ip, outbox, prev, lastSaved, nsent,
                   changes, ticks>>
    /\ UNCHANGED <<env, myip, nloops, reready, consumed>>

\* f.write(ip) or the close raises OSError: some prefix of ip reached the file,
\* the exception leaves ip_monitor and tasks.loop retries after a backoff
SaveWriteFail ==
    /\ pc = "save"
    /\ \E written \in Prefixes(WriteNewlines(current_ip)) : file' = written
    /\ pc' = "done"
    /\ tick' = [tick EXCEPT !.fail = "save"]
    /\ UNCHANGED <<ext, current_ip, last_ip, outbox, prev, lastSaved, nsent,
                   changes, ticks>>
    /\ UNCHANGED <<env, myip, nloops, reready, consumed>>

\* `await channel.send(msg)` delivers the message
SendOk ==
    /\ pc = "send"
    /\ outbox' = Append(outbox, Message(last_ip, current_ip))
    /\ nsent' = nsent + 1
    /\ tick' = [tick EXCEPT !.sent = @ + 1]
    /\ pc' = "done"
    /\ UNCHANGED <<ext, file, current_ip, last_ip, prev, lastSaved, changes, ticks>>
    /\ UNCHANGED <<env, myip, nloops, reready, consumed>>

\* a failed send undoes the save
SendFailRollback ==
    /\ pc = "send"
    /\ \E retried \in BOOLEAN :
          /\ pc' = IF retried THEN "done" ELSE "failed"
          /\ nloops' = IF retried THEN nloops ELSE nloops - 1
    /\ tick' = [tick EXCEPT !.fail = "send"]
    /\ file' = tick.file0
    /\ UNCHANGED <<ext, current_ip, last_ip, outbox, prev, lastSaved, nsent,
                   changes, ticks>>
    /\ UNCHANGED <<env, myip, reready, consumed>>

\* `await channel.send(msg)` raises.  An OSError / aiohttp.ClientError is in the
\* retry set of tasks.loop (the loop goes on); a discord.HTTPException
\* (Forbidden, server error) is not, and the loop task ends with it.
SendFail ==
    /\ pc = "send"
    /\ \E retried \in BOOLEAN :
          /\ pc' = IF retried THEN "done" ELSE "failed"
          /\ nloops' = IF retried THEN nloops ELSE nloops - 1
    /\ tick' = [tick EXCEPT !.fail = "send"]
    /\ UNCHANGED <<ext, file, current_ip, last_ip, outbox, prev, lastSaved, nsent,
                   changes, ticks>>
    /\ UNCHANGED <<env, myip, reready, consumed>>

\* the iteration is over; tasks.loop sleeps until the next one
Sleep ==
    /\ pc = "done"
    /\ pc' = "idle"
    /\ prev' = [addr |-> current_ip, sent |-> tick.sent, chg |-> tick.chg]
    /\ current_ip' = None
    /\ last_ip' = None
    /\ outbox' = <<>>
    /\ tick' = NoTick
    /\ UNCHANGED <<ext, file, lastSaved, nsent, changes, ticks>>
    /\ UNCHANGED <<env, myip, nloops, reready, consumed>>

Next ==
    \/ ExtChange
    \/ Kill
    \/ Start
    \/ OnReady
    \/ MyIpCommand
    \/ Tick
    \/ FetchFail
    \/ FetchOk
    \/ SaveWrite
    \/ SaveWriteFail
    \/ SendOk
    \/ SendFail
    \/ Sleep

Spec == Init /\ [][Next]_vars

\* The loop without the bookkeeping that bounds a behaviour: an iteration that
\* is not counted, and a delivery that is not counted.  With them ip_monitor
\* can go round for ever.
TickOn ==
    /\ pc = "idle"
    /\ pc' = "fetch"
    /\ tick' = [NoTick EXCEPT !.file0 = file]
    /\ current_ip' = None
    /\ last_ip' = None
    /\ outbox' = <<>>
    /\ UNCHANGED <<ext, file, prev, lastSaved, nsent, changes, ticks>>
    /\ UNCHANGED <<env, myip, nloops, reready, consumed>>

SendOkOn ==
    /\ pc = "send"
    /\ outbox' = Append(outbox, Message(last_ip, current_ip))
    /\ tick' = [tick EXCEPT !.sent = @ + 1]
    /\ pc' = "done"
    /\ UNCHANGED <<ext, file, current_ip, last_ip, prev, lastSaved, nsent, changes, ticks>>
    /\ UNCHANGED <<env, myip, nloops, reready, consumed>>

LiveNext ==
    \/ ExtChange
    \/ Kill
    \/ Start
    \/ OnReady
    \/ MyIpCommand
    \/ TickOn
    \/ FetchFail
    \/ FetchOk
    \/ SaveWrite
    \/ SaveWriteFail
    \/ SendOkOn
    \/ SendFail
    \/ Sleep

\* the asyncio event loop runs every ready callback and every await ends (the
\* fetch has a timeout); the environment (ExtChange, Kill, Start, users) is free
FairSpec ==
    /\ Init
    /\ [][LiveNext]_vars
    /\ WF_vars(OnReady)
    /\ WF_vars(TickOn)
    /\ WF_vars(FetchOk \/ FetchFail)
    /\ WF_vars(SaveWrite \/ SaveWriteFail)
    /\ WF_vars(SendOkOn \/ SendFail)
    /\ WF_vars(Sleep)

TypeOK ==
    /\ pc \in {"down", "off", "idle", "fetch", "save", "send", "done", "failed"}
    /\ nsent \in 0..MaxTicks
    /\ changes \in 1..MaxChanges
    /\ ticks \in 0..MaxTicks

\* ---------------------------------------------------------------- properties
\* a well-formed address text: not empty, no whitespace in it
Plain(a) == a # <<>> /\ a # None /\ a # NoFile /\ \A i \in 1..Len(a) : ~IsSpace(a[i])

\* the tick has run to its end (ip_monitor returned or raised)
TickOver == pc \in {"done", "failed"}

\* the tick fetched an address and nothing failed afterwards: the state was
\* loaded, the save (if any) succeeded, the channel resolved, the send succeeded
CleanTick == pc = "done" /\ current_ip # None /\ tick.fail = "none"

\* C1: the number of notifications sent never exceeds the number of times the
\* external address changed (the first address counted as one change), for any
\* stripped response body.
C1_AtMostOneNotificationPerChange == nsent <= changes

\* C2: the polling loop never stops itself; no runtime I/O error ends the
\* ip_monitor task, only an external shutdown does.
C2_LoopNeverStopsItself == pc # "failed"

\* C3: a tick whose fetch fails leaves the persisted address as it was before
\* the tick and sends no notification.
C3_FetchFailureChangesNothing ==
    tick.fail = "fetch" => file = tick.file0 /\ tick.sent = 0 /\ outbox = <<>>

C3_Witness ==
    pc = "done" /\ tick.fail = "fetch" /\ load_last_ip(file) # None

\* C4: in a tick where the fetch returns an address different from the stored
\* one but save_last_ip fails, no notification is sent.
C4_SaveFailureSkipsNotification ==
    tick.fail = "save" => tick.sent = 0 /\ outbox = <<>> /\ pc \notin {"send"}

C4_Witness ==
    pc = "done" /\ tick.fail = "save" /\ current_ip # None /\ last_ip # current_ip

\* C5: in a tick where the save succeeded but the notification failed (channel
\* not resolved, or the send raised), the save is not rolled back: after the
\* tick the state file holds the newly fetched address.
C5_NotifyFailureKeepsSave ==
    (TickOver /\ tick.saved /\ tick.fail \in {"nochannel", "send"})
        => file = current_ip /\ tick.sent = 0

C5_Witness ==
    /\ TickOver /\ tick.saved /\ tick.fail \in {"nochannel", "send"}
    /\ tick.file0 # NoFile /\ tick.file0 # file

\* C6: once a save has succeeded, no later load_last_ip observes a truncated or
\* empty/absent value: outside of a running save_last_ip, a reader gets what the
\* last successful save stored.
C6_SaveAtomicForReaders ==
    (Plain(lastSaved) /\ pc # "save") => load_last_ip(file) = lastSaved

\* C7: two ticks in succession with the external address unchanged: the first
\* sends one notification, the second sends none.
C7_SecondTickSilent ==
    (CleanTick /\ prev.sent = 1 /\ prev.addr = current_ip /\ prev.chg = tick.chg)
        => tick.sent = 0

\* C8 as stated: with no state file and a fetch returning the address a, after the tick
\* the state holds a and exactly one startup-framed notification mentioning a
\* has been sent.
C8_FirstRun_AsStated ==
    (TickOver /\ Plain(current_ip) /\ tick.file0 = NoFile)
        => /\ file = current_ip
           /\ tick.sent = 1
           /\ Len(outbox) = 1
           /\ Head(outbox[1]) = StartupPrefix
           /\ Mentions(outbox[1], current_ip)

\* C8 amended: with no persisted state and a fetch returning a, if the save
\* succeeds, the channel resolves and the send succeeds, then after the tick the
\* state file holds a and exactly one startup-framed notification mentioning a
\* has been sent.
C8_FirstRun ==
    (CleanTick /\ load_last_ip(tick.file0) = None)
        => /\ file = current_ip
           /\ tick.sent = 1
           /\ Len(outbox) = 1
           /\ Head(outbox[1]) = StartupPrefix
           /\ Mentions(outbox[1], current_ip)

C8_Witness ==
    /\ CleanTick /\ tick.file0 = NoFile
    /\ current_ip = <<"1", "1">> /\ file = current_ip /\ Len(outbox) = 1

\* C9 as stated: with the address p persisted and a fetch returning c # p, after the
\* tick the state holds c and exactly one change-framed notification naming p
\* and c has been sent.
C9_Change_AsStated ==
    (TickOver /\ Plain(current_ip) /\ Plain(tick.file0) /\ tick.file0 = lastSaved
              /\ tick.file0 # current_ip)
        => /\ file = current_ip
           /\ tick.sent = 1
           /\ Len(outbox) = 1
           /\ Head(outbox[1]) = ChangePrefix
           /\ Mentions(outbox[1], load_last_ip(tick.file0))
           /\ Mentions(outbox[1], current_ip)

\* C9 amended: with persisted address p and a fetch returning c # p, if the
\* load and the save succeed, the channel resolves and the send succeeds, then
\* after the tick the state file holds c and exactly one change-framed
\* notification naming p and c has been sent.
C9_Change ==
    (CleanTick /\ load_last_ip(tick.file0) # None
               /\ load_last_ip(tick.file0) # current_ip)
        => /\ file = current_ip
           /\ tick.sent = 1
           /\ Len(outbox) = 1
           /\ Head(outbox[1]) = ChangePrefix
           /\ Mentions(outbox[1], load_last_ip(tick.file0))
           /\ Mentions(outbox[1], current_ip)

C9_Witness ==
    /\ CleanTick /\ tick.file0 = <<"1", "1">>
    /\ current_ip = <<"1">> /\ file = current_ip /\ Len(outbox) = 1

\* C10: a tick in which the fetched address equals the loaded one performs no
\* save and sends no notification, and the state file is written only in a tick
\* that found a difference.
C10_NoChangeFrame ==
    [][ /\ (pc' = "done" /\ current_ip' # None /\ tick'.fail = "none"
               /\ last_ip' = current_ip')
            => (file' = tick'.file0 /\ ~tick'.saved /\ tick'.sent = 0 /\ outbox' = <<>>)
        /\ (file' # file)
            => (pc' \in {"save", "send", "done"} /\ current_ip' # None
                  /\ last_ip' # current_ip') ]_vars

C10_Witness ==
    pc = "done" /\ current_ip # None /\ tick.fail = "none" /\ last_ip = current_ip

\* C11: round trip of the state store: for any non-empty text v,
\* save_last_ip(v) followed by load_last_ip() returns exactly v.  Checked for the
\* texts the poller saves (stripped response bodies), right after the save.
C11_SaveLoadRoundTrip ==
    (tick.saved /\ current_ip # <<>>) => load_last_ip(file) = current_ip

\* C12: whenever a user issues "!myip" while the bot is running, the bot
\* eventually replies with the current public IP (unless the process is stopped
\* first).
C12_MyIpAnswered == (myip = "asked") ~> (myip = "answered" \/ pc = "down")

\* C13: if the auth token or the channel ID is absent at startup, startup
\* aborts before the bot connects: the monitor loop never starts, no tick runs,
\* nothing is saved and nothing is sent; with no poll interval configured the
\* interval is 300 seconds.
C13_FatalConfiguration ==
    [][ /\ (~env'.token \/ ~env'.channel) => pc' = "down"
        /\ (~env.token \/ ~env.channel)
              => (ticks' = ticks /\ file' = file /\ nsent' = nsent /\ nloops' = nloops)
        /\ (pc' # "down" /\ env'.interval = <<>>) => CHECK_INTERVAL(env') = 300 ]_vars

C13_Witness ==
    pc = "down" /\ env.token /\ ~env.channel /\ lastSaved # NoFile

\* C14: save before notify: at the moment a notification announcing address c
\* is sent, the save of this tick has completed and the state file holds c.
C14_SaveBeforeNotify ==
    [][ nsent' = nsent + 1
          => /\ tick.saved
             /\ file = current_ip
             /\ Mentions(outbox'[Len(outbox')], file) ]_vars

C14_Witness ==
    /\ pc = "done" /\ tick.sent = 1 /\ Len(outbox) = 1
    /\ Plain(tick.file0) /\ Plain(file) /\ tick.file0 # file

\* C15: however many times on_ready fires, at most one ip_monitor loop is
\* alive, so two ticks never run concurrently.
C15_SingleMonitor == nloops <= 1 /\ (is_running <=> nloops = 1)

C15_Witness ==
    reready /\ nloops = 1 /\ pc = "fetch" /\ ticks = 1

\* C16: an unresolvable channel consumes the change: the tick that finds the
\* new address c and no channel still saves c and sends nothing, and no
\* notification is sent in any later tick for as long as the fetched address
\* remains c, even when the channel resolves again.
C16_UnresolvedConsumesChange ==
    [][ /\ (pc = "save" /\ pc' = "done" /\ tick'.fail = "nochannel")
              => (file' = current_ip /\ nsent' = nsent)
        /\ (nsent' = nsent + 1) => current_ip # consumed ]_vars

\* C17: once the state holds c, a tick that fetches c again and meets no failure
\* leaves the state at c, saves nothing and sends nothing (the "stays c" half of
\* the convergence claim).
C17_StaysConverged ==
    (pc = "done" /\ current_ip # None /\ tick.fail = "none" /\ tick.file0 = current_ip)
        => (file = current_ip /\ ~tick.saved /\ tick.sent = 0)
====
